---- MODULE Spec2Model ----
(***************************************************************************)
(* Model of the release controller (pkg/controller/release/controller.go). *)
(*                                                                         *)
(* The controller owns a rate limiting work queue of keys.  Informer       *)
(* notifications enqueue keys (enqueueRelease); Run waits for the cache to *)
(* sync and starts one worker goroutine (wait.Until); the worker sweeps    *)
(* (manager.Run) and then loops over processNextWorkItem.                  *)
(*                                                                         *)
(* A key string "ns/name" is modelled by the sequence of its segments      *)
(* between slashes: "a/r1" is <<"a", "r1">>.                               *)
(***************************************************************************)
EXTENDS Integers, Sequences, FiniteSets, TLC

\* ------------------------------------------------------------------ bounds
\* Largest number of rate limited requeues recorded for one key.
MaxFailures == 1

\* Largest number of failures the rate limiter alone is driven to for one key;
\* the delay reaches its maximum at 18.
MaxRequeues == 20

\* Largest number of release conditions constructed.
MaxConds == 5

\* ------------------------------------------------------------- the objects
\* The releases the informer can report.
Objs == { [namespace |-> "a", name |-> "r1"], [namespace |-> "b", name |-> "r2"] }

NoRelease == [namespace |-> "", name |-> ""]
NoKey == << >>

\* A key that does not have the shape "name" or "namespace/name".
MalformedKey == << "bad", "key", "format" >>

\* cache.MetaNamespaceKeyFunc: "namespace/name", or "name" when the
\* namespace is empty.
MetaNamespaceKeyFunc(obj) ==
    IF obj.namespace # "" THEN << obj.namespace, obj.name >> ELSE << obj.name >>

ObjKeys == { MetaNamespaceKeyFunc(o) : o \in Objs }
Keys == ObjKeys \cup { MalformedKey }

\* A notification carries a release (kind "release"), a tombstone
\* (cache.DeletedFinalStateUnknown, kind "tombstone") holding a key, or
\* something that is not an object at all (kind "other").
\* cache.DeletionHandlingMetaNamespaceKeyFunc: a tombstone yields the key it
\* holds, an object its namespace/name key, anything else an error.
DeletionHandlingMetaNamespaceKeyFunc(n) ==
    CASE n.kind = "tombstone" -> [ key |-> n.key, err |-> FALSE ]
      [] n.kind = "release"   -> [ key |-> MetaNamespaceKeyFunc(n.obj), err |-> FALSE ]
      [] OTHER                -> [ key |-> NoKey, err |-> TRUE ]

\* keyForObj as it would be with cache.MetaNamespaceKeyFunc alone: a
\* tombstone has no key.
keyForObjNoTombstone(n) ==
    IF n.kind = "release"
    THEN [ key |-> MetaNamespaceKeyFunc(n.obj), err |-> FALSE ]
    ELSE [ key |-> NoKey, err |-> TRUE ]

\* keyForObj returns the key of obj.
keyForObj(n) == DeletionHandlingMetaNamespaceKeyFunc(n)

\* cache.SplitMetaNamespaceKey: one segment is a name with an empty
\* namespace, two segments are namespace and name, anything else is an error.
SplitMetaNamespaceKey(k) ==
    CASE Len(k) = 1 -> [ namespace |-> "", name |-> k[1], err |-> FALSE ]
      [] Len(k) = 2 -> [ namespace |-> k[1], name |-> k[2], err |-> FALSE ]
      [] OTHER      -> [ namespace |-> "", name |-> "", err |-> TRUE ]

Range(s) == { s[i] : i \in 1..Len(s) }

\* ------------------------------------------------------------ the queue
\* workqueue.NewRateLimitingQueue: the pending list, the dirty and the
\* processing sets, the keys waiting for their backoff delay, the rate
\* limiter's failure counters, the last delay it gave each key and the
\* shutting down flag.
NewRateLimitingQueue ==
    [ queue        |-> << >>,
      dirty        |-> {},
      processing   |-> {},
      waiting      |-> {},
      failures     |-> [ k \in Keys |-> 0 ],
      delay        |-> [ k \in Keys |-> 0 ],
      shuttingDown |-> FALSE ]

\* Add as it would be without the dirty check: a pending key is appended
\* once more.
AddNoDedup(qs, k) ==
    IF qs.shuttingDown THEN qs
    ELSE IF k \in qs.processing THEN [ qs EXCEPT !.dirty = @ \cup {k} ]
    ELSE [ qs EXCEPT !.dirty = @ \cup {k}, !.queue = Append(@, k) ]

\* Add: no-op when shutting down or already dirty; a key being processed is
\* only marked dirty; otherwise the key is appended to the pending list.
Add(qs, k) ==
    IF qs.shuttingDown THEN qs
    ELSE IF k \in qs.dirty THEN qs
    ELSE IF k \in qs.processing THEN [ qs EXCEPT !.dirty = @ \cup {k} ]
    ELSE [ qs EXCEPT !.dirty = @ \cup {k}, !.queue = Append(@, k) ]

\* Get blocks until a key is pending or the queue is shutting down.
GetReady(qs) == qs.queue # << >> \/ qs.shuttingDown

\* Get reports quit when nothing is pending (and the queue is shutting down).
GetQuit(qs) == qs.queue = << >>

\* Get: the head of the pending list moves to the processing set.
Get(qs) ==
    [ qs EXCEPT !.queue = Tail(@),
                !.processing = @ \cup { Head(qs.queue) },
                !.dirty = @ \ { Head(qs.queue) } ]

\* Done: the key is no longer processing; a key that was re-added while it
\* was processing becomes pending again.
Done(qs, k) ==
    IF k \in qs.dirty
    THEN [ qs EXCEPT !.processing = @ \ {k}, !.queue = Append(@, k) ]
    ELSE [ qs EXCEPT !.processing = @ \ {k} ]

\* The rate limiter's delays, in milliseconds: the per item exponential
\* backoff of the default controller rate limiter.
BaseDelay == 5
MaxDelay == 1000000

\* The delay as it would be without the maximum.
WhenUncapped(n) == BaseDelay * 2^n

\* When: the delay of an item with n failures recorded, doubling from the
\* base delay up to the maximum.
When(n) == IF BaseDelay * 2^n > MaxDelay THEN MaxDelay ELSE BaseDelay * 2^n

\* AddRateLimited: the rate limiter records one more failure of the key, and
\* the key waits for its backoff delay, kept in delay, before it is added.
AddRateLimited(qs, k) ==
    IF qs.shuttingDown
    THEN [ qs EXCEPT !.failures[k] = @ + 1, !.delay[k] = When(qs.failures[k]) ]
    ELSE [ qs EXCEPT !.failures[k] = @ + 1, !.delay[k] = When(qs.failures[k]),
                     !.waiting = @ \cup {k} ]

\* Forget: the rate limiter drops the failures recorded for the key.
Forget(qs, k) == [ qs EXCEPT !.failures[k] = 0 ]

\* ------------------------------------------------------------- the state
VARIABLES
    q,        \* rc.queue
    store,    \* the releases in the informer's cache (rc.releaseLister)
    synced,   \* rc.releaseHasSynced()
    stopped,  \* stopCh is closed
    runPc,    \* where Run is: "waitSync", "waitStop", "returned"
    wpc,      \* where the worker goroutine is
    key,      \* processNextWorkItem: the key Get returned
    lookup,   \* processNextWorkItem: the result of the lister's Get
    result,   \* processNextWorkItem: the return path taken
    calls,    \* the manager's Trigger/Delete calls made by the running
              \* processNextWorkItem
    workers,  \* the worker goroutines Run has started
    swept,    \* manager.Run() has returned at least once
    sweeps,   \* the manager.Run() calls of the running invocation of worker
    sweepErr, \* worker: manager.Run() returned an error in this invocation
    conditions \* the release conditions constructed (package storage)

vars == << q, store, synced, stopped, runPc, wpc, key, lookup, result, calls,
           workers, swept, sweeps, sweepErr, conditions >>

NoLookup == [ err |-> "none", release |-> NoRelease ]

Init ==
    /\ q = NewRateLimitingQueue
    /\ store = {}
    /\ synced = FALSE
    /\ stopped = FALSE
    /\ runPc = "waitSync"
    /\ wpc = "none"
    /\ key = NoKey
    /\ lookup = NoLookup
    /\ result = "none"
    /\ calls = << >>
    /\ workers = 0
    /\ swept = FALSE
    /\ sweeps = 0
    /\ sweepErr = FALSE
    /\ conditions = << >>


\* ------------------------------------------------------- notifications
\* enqueueRelease enqueues the key of obj; an object without a key is logged
\* and dropped.
enqueueRelease(n) ==
    IF keyForObj(n).err
    THEN UNCHANGED q
    ELSE q' = Add(q, keyForObj(n).key)

\* AddFunc: the informer has put the release in its cache.
OnAdd ==
    \E o \in Objs :
        /\ o \notin store
        /\ store' = store \cup {o}
        /\ enqueueRelease([ kind |-> "release", obj |-> o, key |-> NoKey ])
        /\ UNCHANGED << synced, stopped, runPc, wpc, key, lookup, result, calls, workers, swept, sweeps, sweepErr, conditions >>

\* UpdateFunc: enqueues the new object.
OnUpdate ==
    \E o \in Objs :
        /\ o \in store
        /\ enqueueRelease([ kind |-> "release", obj |-> o, key |-> NoKey ])
        /\ UNCHANGED << store, synced, stopped, runPc, wpc, key, lookup, result, calls, workers, swept, sweeps, sweepErr, conditions >>

\* DeleteFunc with the deleted release: the informer has removed it from its
\* cache.
OnDelete ==
    \E o \in Objs :
        /\ o \in store
        /\ store' = store \ {o}
        /\ enqueueRelease([ kind |-> "release", obj |-> o, key |-> NoKey ])
        /\ UNCHANGED << synced, stopped, runPc, wpc, key, lookup, result, calls, workers, swept, sweeps, sweepErr, conditions >>

\* DeleteFunc with a tombstone: the release of that key, if any, has left
\* the cache.
OnDeleteTombstone ==
    \E k \in Keys :
        /\ store' = { o \in store : MetaNamespaceKeyFunc(o) # k }
        /\ enqueueRelease([ kind |-> "tombstone", obj |-> NoRelease, key |-> k ])
        /\ UNCHANGED << synced, stopped, runPc, wpc, key, lookup, result, calls, workers, swept, sweeps, sweepErr, conditions >>

\* A notification whose object has no key.
OnOther ==
    /\ enqueueRelease([ kind |-> "other", obj |-> NoRelease, key |-> NoKey ])
    /\ UNCHANGED << store, synced, stopped, runPc, wpc, key, lookup, result, calls, workers, swept, sweeps, sweepErr, conditions >>

\* The delaying queue adds a waiting key once its delay has passed.
WaitingReady ==
    \E k \in q.waiting :
        /\ q' = Add([ q EXCEPT !.waiting = @ \ {k} ], k)
        /\ UNCHANGED << store, synced, stopped, runPc, wpc, key, lookup, result, calls, workers, swept, sweeps, sweepErr, conditions >>

\* ------------------------------------------------------- the environment
\* The informer reports its initial sync complete.
HasSynced ==
    /\ ~synced
    /\ synced' = TRUE
    /\ UNCHANGED << q, store, stopped, runPc, wpc, key, lookup, result, calls, workers, swept, sweeps, sweepErr, conditions >>

\* The stop signal: stopCh is closed.
Stop ==
    /\ ~stopped
    /\ stopped' = TRUE
    /\ UNCHANGED << q, store, synced, runPc, wpc, key, lookup, result, calls, workers, swept, sweeps, sweepErr, conditions >>

\* ------------------------------------------------------------------ Run
\* The failed sync as it would be without the return: Run goes on to start
\* the worker.
RunSyncFailedStartWorker ==
    /\ runPc = "waitSync"
    /\ stopped
    /\ runPc' = "waitStop"
    /\ wpc' = "idle"
    /\ workers' = workers + 1
    /\ UNCHANGED << q, store, synced, stopped, key, lookup, result, calls, swept, sweeps, sweepErr, conditions >>

\* WaitForCacheSync returns false: the stop signal came first; Run returns.
RunSyncFailed ==
    /\ runPc = "waitSync"
    /\ stopped
    /\ runPc' = "returned"
    /\ UNCHANGED << q, store, synced, stopped, wpc, key, lookup, result, calls, workers, swept, sweeps, sweepErr, conditions >>

\* The start as it would be with two worker goroutines.
RunStartTwoWorkers ==
    /\ runPc = "waitSync"
    /\ synced
    /\ runPc' = "waitStop"
    /\ wpc' = "idle"
    /\ workers' = workers + 2
    /\ UNCHANGED << q, store, synced, stopped, key, lookup, result, calls, swept, sweeps, sweepErr, conditions >>

\* WaitForCacheSync returns true; Run starts the worker goroutine and waits
\* for the stop signal.
RunStartWorker ==
    /\ runPc = "waitSync"
    /\ synced
    /\ runPc' = "waitStop"
    /\ wpc' = "idle"
    /\ workers' = workers + 1
    /\ UNCHANGED << q, store, synced, stopped, key, lookup, result, calls, swept, sweeps, sweepErr, conditions >>

\* <-stopCh: Run returns.
RunStopped ==
    /\ runPc = "waitStop"
    /\ stopped
    /\ runPc' = "returned"
    /\ UNCHANGED << q, store, synced, stopped, wpc, key, lookup, result, calls, workers, swept, sweeps, sweepErr, conditions >>

Run == RunSyncFailed \/ RunStartWorker \/ RunStopped


\* --------------------------------------------------------------- worker
\* wait.Until calls worker again, unless the stop signal has been given.
WaitUntilInvoke ==
    /\ wpc = "idle"
    /\ ~stopped
    /\ wpc' = "sweep"
    /\ UNCHANGED << q, store, synced, stopped, runPc, key, lookup, result, calls, workers, swept, sweeps, sweepErr, conditions >>

\* wait.Until returns once the stop signal has been given.
WaitUntilExit ==
    /\ wpc = "idle"
    /\ stopped
    /\ wpc' = "exited"
    /\ UNCHANGED << q, store, synced, stopped, runPc, key, lookup, result, calls, workers, swept, sweeps, sweepErr, conditions >>

\* worker as it would be without the sweep: straight to the loop.
workerNoSweep ==
    /\ wpc = "sweep"
    /\ wpc' = "get"
    /\ UNCHANGED << q, store, synced, stopped, runPc, key, lookup, result, calls, workers, swept, sweeps, sweepErr, conditions >>

\* worker as it would be if a failed sweep made it return.
workerReturnOnError ==
    /\ wpc = "sweep"
    /\ \E err \in BOOLEAN :
           IF err
           THEN wpc' = "idle" /\ sweepErr' = FALSE /\ sweeps' = 0
           ELSE wpc' = "get" /\ sweepErr' = FALSE /\ sweeps' = sweeps + 1
    /\ swept' = TRUE
    /\ UNCHANGED << q, store, synced, stopped, runPc, key, lookup, result, calls, workers, conditions >>

\* worker: manager.Run() once, its error only logged, then the loop over
\* processNextWorkItem.
worker ==
    /\ wpc = "sweep"
    /\ \E err \in BOOLEAN :
           /\ sweepErr' = err
           /\ wpc' = "get"
    /\ swept' = TRUE
    /\ sweeps' = sweeps + 1
    /\ UNCHANGED << q, store, synced, stopped, runPc, key, lookup, result, calls, workers, conditions >>

\* worker returns to wait.Until: what the invocation kept ends with it.
WorkerReturns ==
    /\ sweeps' = 0
    /\ sweepErr' = FALSE

\* The Get step as it would be with Done called at once instead of deferred.
GetNextDoneAtOnce ==
    /\ wpc = "get"
    /\ GetReady(q)
    /\ IF GetQuit(q)
       THEN /\ wpc' = "idle"
            /\ WorkerReturns
            /\ UNCHANGED << q, key, lookup, result, calls >>
       ELSE /\ q' = Done(Get(q), Head(q.queue))
            /\ key' = Head(q.queue)
            /\ wpc' = "split"
            /\ UNCHANGED << lookup, result, calls, sweeps, sweepErr >>
    /\ UNCHANGED << store, synced, stopped, runPc, workers, swept, conditions >>

\* key, quit := rc.queue.Get(); quit returns false.  From here on the
\* deferred Done is pending.
GetNext ==
    /\ wpc = "get"
    /\ GetReady(q)
    /\ IF GetQuit(q)
       THEN /\ wpc' = "idle"
            /\ WorkerReturns
            /\ UNCHANGED << q, key, lookup, result, calls >>
       ELSE /\ q' = Get(q)
            /\ key' = Head(q.queue)
            /\ wpc' = "split"
            /\ UNCHANGED << lookup, result, calls, sweeps, sweepErr >>
    /\ UNCHANGED << store, synced, stopped, runPc, workers, swept, conditions >>

\* The decode step as it would be if the decode error returned without the
\* deferred Done.
SplitKeyNoDone ==
    /\ wpc = "split"
    /\ IF SplitMetaNamespaceKey(key).err
       THEN /\ wpc' = "idle"
            /\ key' = NoKey
            /\ WorkerReturns
       ELSE /\ wpc' = "lookup"
            /\ UNCHANGED << key, sweeps, sweepErr >>
    /\ UNCHANGED << q, store, synced, stopped, runPc, lookup, result, calls, workers, swept, conditions >>

\* The decode step as it would be if a key that does not decode were
\* re-enqueued like a failed reconcile.
SplitKeyRequeue ==
    /\ wpc = "split"
    /\ IF SplitMetaNamespaceKey(key).err
       THEN /\ wpc' = "deferDone"
            /\ result' = "decodeErr"
            /\ q' = AddRateLimited(q, key)
       ELSE /\ wpc' = "lookup"
            /\ UNCHANGED << q, result >>
    /\ UNCHANGED << store, synced, stopped, runPc, key, lookup, calls, workers, swept, sweeps, sweepErr, conditions >>

\* namespace, name, err := cache.SplitMetaNamespaceKey(key); an error
\* returns false.
SplitKey ==
    /\ wpc = "split"
    /\ IF SplitMetaNamespaceKey(key).err
       THEN /\ wpc' = "deferDone"
            /\ result' = "decodeErr"
       ELSE /\ wpc' = "lookup"
            /\ UNCHANGED result
    /\ UNCHANGED << q, store, synced, stopped, runPc, key, lookup, calls, workers, swept, sweeps, sweepErr, conditions >>

\* rc.releaseLister.Releases(namespace).Get(name): the release of the cache,
\* a not found error, or another error.
ListerGet(namespace, name) ==
    LET hit == { r \in store : r.namespace = namespace /\ r.name = name }
    IN  ( IF hit = {}
          THEN { [ err |-> "notfound", release |-> NoRelease ] }
          ELSE { [ err |-> "none", release |-> o ] : o \in hit } )
          \cup { [ err |-> "other", release |-> NoRelease ] }

\* The dispatch as it would be without the not found branch.
DispatchAlwaysTrigger(namespace, name, lk) ==
    [ op |-> "Trigger", namespace |-> lk.release.namespace, name |-> lk.release.name ]

\* The call the lookup leads to: Delete(namespace, name) when the release is
\* not found, Trigger(release) otherwise.
Dispatch(namespace, name, lk) ==
    IF lk.err # "none"
    THEN [ op |-> "Delete", namespace |-> namespace, name |-> name ]
    ELSE [ op |-> "Trigger", namespace |-> lk.release.namespace, name |-> lk.release.name ]

\* The lookup, and on its result the return (an error that is not "not
\* found") or the start of the manager's call.
LookupRelease ==
    /\ wpc = "lookup"
    /\ \E lk \in ListerGet(SplitMetaNamespaceKey(key).namespace,
                           SplitMetaNamespaceKey(key).name) :
         /\ lookup' = lk
         /\ IF lk.err = "other"
            THEN /\ wpc' = "deferDone"
                 /\ result' = "lookupErr"
                 /\ UNCHANGED calls
            ELSE /\ wpc' = "inCall"
                 /\ calls' = Append(calls, Dispatch(SplitMetaNamespaceKey(key).namespace,
                                                    SplitMetaNamespaceKey(key).name, lk))
                 /\ UNCHANGED result
    /\ UNCHANGED << q, store, synced, stopped, runPc, key, workers, swept, sweeps, sweepErr, conditions >>

\* The error return as it would be without the re-enqueue.
CallFailedNoRequeue ==
    /\ wpc = "inCall"
    /\ q.failures[key] < MaxFailures
    /\ wpc' = "deferDone"
    /\ result' = "actionErr"
    /\ UNCHANGED << q, store, synced, stopped, runPc, key, lookup, calls, workers, swept, sweeps, sweepErr, conditions >>

\* The manager's call returns an error: the key is re-enqueued rate limited
\* and processNextWorkItem returns false.
CallFailed ==
    /\ wpc = "inCall"
    /\ q.failures[key] < MaxFailures
    /\ q' = AddRateLimited(q, key)
    /\ wpc' = "deferDone"
    /\ result' = "actionErr"
    /\ UNCHANGED << store, synced, stopped, runPc, key, lookup, calls, workers, swept, sweeps, sweepErr, conditions >>

\* The manager's call returns no error: processNextWorkItem returns true.
CallSucceeded ==
    /\ wpc = "inCall"
    /\ wpc' = "deferDone"
    /\ result' = "ok"
    /\ UNCHANGED << q, store, synced, stopped, runPc, key, lookup, calls, workers, swept, sweeps, sweepErr, conditions >>

\* The return as it would be with a sweep before every item: after true the
\* worker sweeps again.
DeferredDoneSweepPerItem ==
    /\ wpc = "deferDone"
    /\ q' = Done(q, key)
    /\ wpc' = IF result = "ok" THEN "sweep" ELSE "idle"
    /\ key' = NoKey
    /\ lookup' = NoLookup
    /\ result' = "none"
    /\ calls' = << >>
    /\ IF result = "ok"
       THEN UNCHANGED << sweeps, sweepErr >>
       ELSE WorkerReturns
    /\ UNCHANGED << store, synced, stopped, runPc, workers, swept, conditions >>

\* The return as it would be with Done called on the error paths only.
DeferredDoneOnErrorOnly ==
    /\ wpc = "deferDone"
    /\ q' = IF result = "ok" THEN q ELSE Done(q, key)
    /\ wpc' = IF result = "ok" THEN "get" ELSE "idle"
    /\ key' = NoKey
    /\ lookup' = NoLookup
    /\ result' = "none"
    /\ calls' = << >>
    /\ IF result = "ok"
       THEN UNCHANGED << sweeps, sweepErr >>
       ELSE WorkerReturns
    /\ UNCHANGED << store, synced, stopped, runPc, workers, swept, conditions >>

\* defer rc.queue.Done(key), run as processNextWorkItem returns: worker
\* goes on with the next item after true and returns after false.  The
\* locals of processNextWorkItem end with it.
DeferredDone ==
    /\ wpc = "deferDone"
    /\ q' = Done(q, key)
    /\ wpc' = IF result = "ok" THEN "get" ELSE "idle"
    /\ key' = NoKey
    /\ lookup' = NoLookup
    /\ result' = "none"
    /\ calls' = << >>
    /\ IF result = "ok"
       THEN UNCHANGED << sweeps, sweepErr >>
       ELSE WorkerReturns
    /\ UNCHANGED << store, synced, stopped, runPc, workers, swept, conditions >>

processNextWorkItem ==
    \/ GetNext
    \/ SplitKey
    \/ LookupRelease
    \/ CallFailed
    \/ CallSucceeded
    \/ DeferredDone

Notification == OnAdd \/ OnUpdate \/ OnDelete \/ OnDeleteTombstone \/ OnOther

Next ==
    \/ Notification
    \/ WaitingReady
    \/ HasSynced
    \/ Stop
    \/ Run
    \/ WaitUntilInvoke
    \/ WaitUntilExit
    \/ worker
    \/ processNextWorkItem

Spec == Init /\ [][Next]_vars


\* The goroutines of the worker and of Run are scheduled, the manager's
\* calls return and the delaying queue's timers fire.  Nothing makes the
\* informer notify, the cache sync or the stop signal come.
Fairness ==
    /\ WF_vars(WaitUntilInvoke)
    /\ WF_vars(WaitUntilExit)
    /\ WF_vars(worker)
    /\ WF_vars(processNextWorkItem)
    /\ WF_vars(WaitingReady)
    /\ WF_vars(Run)

FairSpec == Spec /\ Fairness

\* ------------------------------------------------------ the rate limiter
\* The rate limiting queue on its own: rate limited adds and forgets of the
\* releases' keys, in any order.
RateLimitedAdd ==
    \E k \in ObjKeys :
        /\ q.failures[k] < MaxRequeues
        /\ q' = AddRateLimited(q, k)
        /\ UNCHANGED << store, synced, stopped, runPc, wpc, key, lookup, result, calls, workers, swept, sweeps, sweepErr, conditions >>

RateLimiterForget ==
    \E k \in ObjKeys :
        /\ q' = Forget(q, k)
        /\ UNCHANGED << store, synced, stopped, runPc, wpc, key, lookup, result, calls, workers, swept, sweeps, sweepErr, conditions >>

LimiterNext == RateLimitedAdd \/ RateLimiterForget

LimiterSpec == Init /\ [][LimiterNext]_vars

\* ------------------------------------------------ the release conditions
\* Reasons for releases.
ReasonAvailable == "Available"
ReasonFailure == "Failure"
ReasonCreating == "Creating"
ReasonUpdating == "Updating"
ReasonRollbacking == "Rollbacking"

\* The condition types of the release API and the core API's true status.
ReleaseAvailable == "Available"
ReleaseFailure == "Failure"
ReleaseProgressing == "Progressing"
ConditionTrue == "True"

\* metav1.Now(): the clock, which ticks with every condition constructed.
Now == Len(conditions)

\* The messages a failure condition is constructed with.
Messages == { "", "install failed" }

\* ConditionAvailable returns an available condition.
ConditionAvailable ==
    [ type               |-> ReleaseAvailable,
      status             |-> ConditionTrue,
      lastTransitionTime |-> Now,
      reason             |-> ReasonAvailable,
      message            |-> "" ]

\* ConditionFailure returns a failure condition.
ConditionFailure(message) ==
    [ type               |-> ReleaseFailure,
      status             |-> ConditionTrue,
      lastTransitionTime |-> Now,
      reason             |-> ReasonFailure,
      message            |-> message ]

\* ConditionCreating returns a creating condition.
ConditionCreating ==
    [ type               |-> ReleaseProgressing,
      status             |-> ConditionTrue,
      lastTransitionTime |-> Now,
      reason             |-> ReasonCreating,
      message            |-> "" ]

\* An updating condition as it would be with the available type.
ConditionUpdatingAvailable ==
    [ type               |-> ReleaseAvailable,
      status             |-> ConditionTrue,
      lastTransitionTime |-> Now,
      reason             |-> ReasonUpdating,
      message            |-> "" ]

\* ConditionUpdating returns a updating condition.
ConditionUpdating ==
    [ type               |-> ReleaseProgressing,
      status             |-> ConditionTrue,
      lastTransitionTime |-> Now,
      reason             |-> ReasonUpdating,
      message            |-> "" ]

\* ConditionRollbacking returns a rollbacking condition.
ConditionRollbacking ==
    [ type               |-> ReleaseProgressing,
      status             |-> ConditionTrue,
      lastTransitionTime |-> Now,
      reason             |-> ReasonRollbacking,
      message            |-> "" ]

\* A constructor is called, with the message it was given if it takes one,
\* and the condition it returns is kept.
Constructed(call, message, condition) ==
    /\ Len(conditions) < MaxConds
    /\ conditions' = Append(conditions, [ call |-> call, message |-> message,
                                          condition |-> condition ])
    /\ UNCHANGED << q, store, synced, stopped, runPc, wpc, key, lookup, result, calls, workers, swept, sweeps, sweepErr >>

CallConditionAvailable == Constructed("ConditionAvailable", "", ConditionAvailable)

CallConditionFailure ==
    \E message \in Messages :
        Constructed("ConditionFailure", message, ConditionFailure(message))

CallConditionCreating == Constructed("ConditionCreating", "", ConditionCreating)

CallConditionUpdating == Constructed("ConditionUpdating", "", ConditionUpdating)

CallConditionRollbacking == Constructed("ConditionRollbacking", "", ConditionRollbacking)

CondNext ==
    \/ CallConditionAvailable
    \/ CallConditionFailure
    \/ CallConditionCreating
    \/ CallConditionUpdating
    \/ CallConditionRollbacking

CondSpec == Init /\ [][CondNext]_vars

\* ---------------------------------------------------------------- claims
\* processNextWorkItem is between Get and the deferred Done.
InFlight == wpc \in { "split", "lookup", "inCall", "deferDone" }

\* processNextWorkItem is returning: only the deferred Done is left to run.
Returning == wpc = "deferDone"

\* Get has just returned k to the worker.
Dequeued(k) == wpc = "split" /\ key = k

\* Every pending key is eventually dequeued, once the worker has been started
\* and unless the stop signal is given.
PendingDequeued ==
    \A k \in ObjKeys :
        (wpc # "none" /\ k \in Range(q.queue)) ~> (stopped \/ Dequeued(k))

\* C1: while the stop signal has not been given, every pending key is
\* eventually dequeued by the running worker, and a key whose reconcile
\* attempt failed (lookup error, Trigger or Delete error) is eventually
\* dequeued again.
C1_EventuallyReconciled ==
    \A k \in ObjKeys :
        /\ (wpc # "none" /\ k \in Range(q.queue)) ~> (stopped \/ Dequeued(k))
        /\ (Returning /\ key = k /\ result \in { "lookupErr", "actionErr" })
              ~> (stopped \/ Dequeued(k))

\* C2: when processNextWorkItem returns after a lookup error that is not
\* "not found", the key has been re-added rate limited: it waits for its
\* delay or is marked to be pending again.
C2_LookupErrorRequeued ==
    (Returning /\ result = "lookupErr") => key \in q.waiting \cup q.dirty

\* C3: when processNextWorkItem returns after a successful Trigger or Delete,
\* the key's failure counter is zero.
C3_ResetOnSuccess ==
    (Returning /\ result = "ok") => q.failures[key] = 0

\* C4: once Run has returned after the stop signal, the queue has been shut
\* down, so that the worker is not blocked in Get on an empty queue.
C4_ShutDownAfterStop ==
    (runPc = "returned" /\ wpc = "get" /\ q.queue = << >>) => q.shuttingDown

\* C5: Run returns only after the stop signal, and with no key in the
\* processing state.
C5_DrainBeforeReturn ==
    [][ (runPc # "returned" /\ runPc' = "returned")
          => (stopped /\ q.processing = {} /\ ~InFlight) ]_vars


\* C6: a key that is being processed is not pending, so Get cannot yield it
\* before Done; this holds for the key the worker holds from Get to the
\* deferred Done, whatever notifications and delayed adds arrive meanwhile.
C6_AtMostOneConcurrent ==
    /\ \A k \in q.processing : k \notin Range(q.queue)
    /\ InFlight => (key \in q.processing /\ key \notin Range(q.queue))

\* C6 witness: the key was added again while the worker's call for it runs.
C6_Witness ==
    wpc = "inCall" /\ key \in q.processing /\ key \in q.dirty

\* The deferred Done of a key that was added while it was processing makes
\* the key pending, still marked dirty.
PendingAfterDone ==
    \A k \in Keys :
        (Returning /\ key = k /\ k \in q.processing /\ k \in q.dirty /\ wpc' # "deferDone")
           => (k \notin q'.processing /\ k \in Range(q'.queue) /\ k \in q'.dirty)

\* C7: a key added by a notification between Get and Done is pending again
\* once Done is called, and unless the stop signal is given Get returns it
\* again.
C7_ReAddWhileProcessing ==
    /\ [][PendingAfterDone]_vars
    /\ \A k \in Keys :
          (Returning /\ key = k /\ k \in q.processing /\ k \in q.dirty)
             ~> (stopped \/ Dequeued(k))

\* C7 witness: processNextWorkItem is about to run the deferred Done of a key
\* that a notification added after Get.
C7_Witness ==
    wpc = "deferDone" /\ result = "ok" /\ key \in q.processing /\ key \in q.dirty
      /\ key \notin q.waiting

\* C8: the pending list holds no key twice, and only dirty keys.
C8_Dedup ==
    /\ \A i, j \in 1..Len(q.queue) : q.queue[i] = q.queue[j] => i = j
    /\ Range(q.queue) \subseteq q.dirty

\* C8 witness: before the worker was started a release was added and then
\* deleted (two notifications, two Add calls), and its key is pending.
C8_Witness ==
    \E o \in Objs :
        /\ wpc = "none"
        /\ o \notin store
        /\ MetaNamespaceKeyFunc(o) \in Range(q.queue)

\* C9 as stated: every dequeue of a key that decodes makes exactly one call.
C9_ExactlyOneCall ==
    (Returning /\ ~SplitMetaNamespaceKey(key).err) => Len(calls) = 1

\* C9 amended: a dequeue makes at most one call: none when the lookup fails
\* with an error that is not "not found" (or the key does not decode), and
\* otherwise exactly one, Delete(namespace, name) if and only if the lookup
\* reports not found and Trigger(release) with the release found if and only
\* if the lookup finds it.
C9_Dispatch ==
    /\ Len(calls) <= 1
    /\ result \in { "decodeErr", "lookupErr" } => calls = << >>
    /\ (wpc = "inCall" \/ (Returning /\ result \in { "actionErr", "ok" }))
          => Len(calls) = 1
    /\ \A i \in 1..Len(calls) :
         /\ calls[i].op = "Delete" <=> lookup.err = "notfound"
         /\ calls[i].op = "Trigger" <=> lookup.err = "none"
         /\ calls[i].op = "Delete" =>
              /\ calls[i].namespace = SplitMetaNamespaceKey(key).namespace
              /\ calls[i].name = SplitMetaNamespaceKey(key).name
         /\ calls[i].op = "Trigger" =>
              /\ lookup.release \in Objs
              /\ MetaNamespaceKeyFunc(lookup.release) = key
              /\ calls[i].namespace = lookup.release.namespace
              /\ calls[i].name = lookup.release.name

\* C9 witness: a Delete call is running for a key whose release is not in
\* the cache.
C9_Witness ==
    /\ wpc = "inCall"
    /\ lookup.err = "notfound"
    /\ calls = << [ op |-> "Delete", namespace |-> "a", name |-> "r1" ] >>

\* What holds when processNextWorkItem returns after Trigger or Delete
\* returned an error: the failure is recorded, and the key waits for its
\* backoff delay or has already been added again, while it is still in the
\* processing set (AddRateLimited came before Done).
RequeuedBeforeDone ==
    (Returning /\ result = "actionErr") =>
        /\ q.failures[key] >= 1
        /\ key \in q.processing
        /\ key \in q.waiting \cup q.dirty

\* The deferred Done after such an error leaves the key waiting for its
\* delay or pending.
NotLostByDone ==
    (Returning /\ result = "actionErr" /\ wpc' # "deferDone") =>
        /\ key \notin q'.processing
        /\ key \in q'.waiting \/ key \in Range(q'.queue)

\* C10: after Trigger or Delete returned an error the worker has called
\* AddRateLimited(key) and then calls Done(key); the key is not lost, and
\* unless the stop signal is given Get returns it again.
C10_RequeueOnError ==
    /\ []RequeuedBeforeDone
    /\ [][NotLostByDone]_vars
    /\ \A k \in ObjKeys :
          (Returning /\ result = "actionErr" /\ key = k) ~> (stopped \/ Dequeued(k))

\* C10 witness: a key with one recorded failure, whose delay has passed, has
\* been dequeued again.
C10_Witness ==
    \E k \in ObjKeys :
        /\ Dequeued(k)
        /\ q.failures[k] = 1
        /\ k \notin q.waiting
        /\ k \notin q.dirty


\* What holds when processNextWorkItem returns for a key that does not
\* decode: no Trigger or Delete call was made and the key was not re-enqueued
\* rate limited.
DroppedUndecoded ==
    (Returning /\ result = "decodeErr") =>
        /\ SplitMetaNamespaceKey(key).err
        /\ calls = << >>
        /\ key \in q.processing
        /\ key \notin q.waiting
        /\ q.failures[key] = 0

\* The deferred Done of such a key marks it done and adds nothing: the key
\* is pending afterwards only if a notification added it meanwhile.  The
\* worker returns, for wait.Until to call it again.
DoneUndecoded ==
    (Returning /\ result = "decodeErr" /\ wpc' # "deferDone") =>
        /\ key \notin q'.processing
        /\ q'.waiting = q.waiting
        /\ q'.failures = q.failures
        /\ key \in Range(q'.queue) <=> key \in q.dirty
        /\ wpc' = "idle"

\* C11: a key that does not decode leads to no Trigger or Delete call, is not
\* re-enqueued and is marked done; the worker goes on: unless the stop signal
\* is given it dequeues the other keys that are pending.
C11_MalformedKey ==
    /\ []DroppedUndecoded
    /\ [][DoneUndecoded]_vars
    /\ \A k \in ObjKeys :
          (Returning /\ result = "decodeErr" /\ k \in Range(q.queue))
             ~> (stopped \/ Dequeued(k))

\* C11 witness: processNextWorkItem returns for the malformed key while the
\* key of a release is pending.
C11_Witness ==
    /\ Returning
    /\ result = "decodeErr"
    /\ key = MalformedKey
    /\ \E k \in ObjKeys : k \in Range(q.queue)


\* C12: startup ordering.  The first sweep, manager.Run(), has returned
\* before any Trigger or Delete call is made and before any key is taken from
\* the queue, and no sweep is made before the cache has synced; a backlog
\* enqueued before the worker started changes nothing.
C12_SweepBeforeCalls ==
    /\ calls # << >> => swept
    /\ q.processing # {} => swept
    /\ wpc \in {"get", "split", "lookup", "inCall", "deferDone"} => swept
    /\ swept => synced

\* A call made after the sweep, with a backlog behind it.
C12_Witness ==
    /\ wpc = "inCall"
    /\ calls # << >>
    /\ swept
    /\ q.queue # << >>


\* Run has returned from the failed WaitForCacheSync: no worker was started.
SyncFailed == runPc = "returned" /\ workers = 0

\* Nothing of the controller has run and nothing is running: no sweep, no
\* Trigger or Delete call, no key taken from the queue, worker not invoked.
NothingRun ==
    /\ ~swept
    /\ sweeps = 0
    /\ calls = << >>
    /\ q.processing = {}
    /\ wpc \in {"none", "idle", "exited"}

\* C13: startup sync failure.  No worker is started while the cache has not
\* synced.  Once the stop signal is given with the cache not synced, Run
\* returns, and from then on for ever manager.Run, Trigger and Delete are not
\* called and no key is dequeued, whatever the notifications enqueue; when
\* Run returned from the failed sync no worker goroutine exists at all.
C13_SyncFailure ==
    /\ [](~synced => workers = 0 /\ wpc = "none")
    /\ []((stopped /\ ~synced) => NothingRun)
    /\ [][(stopped /\ NothingRun) => NothingRun']_vars
    /\ [](SyncFailed => stopped /\ NothingRun /\ wpc = "none")
    /\ [][SyncFailed => SyncFailed']_vars
    /\ (stopped /\ ~synced) ~> (runPc = "returned")

\* Run has returned from the failed sync with a key waiting in the queue.
C13_Witness ==
    /\ SyncFailed
    /\ ~synced
    /\ q.queue # << >>


\* A step that is AddRateLimited(k): one more failure is recorded for k.
IsAddRateLimited(k) == q'.failures[k] = q.failures[k] + 1

\* C14: backoff growth and reset.  With failures recorded for k, that is with
\* no Forget(k) since the last AddRateLimited(k), the delay of the next
\* AddRateLimited(k) is not below the last one, and above it until the maximum
\* is reached; with none recorded, at first and after Forget(k), it is the base
\* delay; no delay is above the maximum.
C14_Backoff ==
    [][\A k \in ObjKeys :
          IsAddRateLimited(k) =>
              /\ q.failures[k] = 0 => q'.delay[k] = BaseDelay
              /\ q.failures[k] > 0 => q'.delay[k] >= q.delay[k]
              /\ (q.failures[k] > 0 /\ q.delay[k] < MaxDelay) => q'.delay[k] > q.delay[k]
              /\ q'.delay[k] >= BaseDelay
              /\ q'.delay[k] <= MaxDelay]_vars

\* One key forgotten after its delay had grown to the maximum, another added
\* again at the base delay after a Forget.
C14_Witness ==
    \E k, j \in ObjKeys :
        /\ q.failures[k] = 0
        /\ q.delay[k] = MaxDelay
        /\ q.failures[j] = 1
        /\ q.delay[j] = BaseDelay


\* The notifications there can be for the release o: the release itself, as
\* the add, update and delete handlers get it, and its tombstone.
NotificationsOf(o) ==
    { [ kind |-> "release", obj |-> o, key |-> NoKey ],
      [ kind |-> "tombstone", obj |-> NoRelease, key |-> MetaNamespaceKeyFunc(o) ] }

\* Every notification for one release has the one key made of its namespace
\* and name; what is not an object has none.
OneKeyPerObject ==
    /\ \A o \in Objs : \A n \in NotificationsOf(o) :
           /\ ~keyForObj(n).err
           /\ keyForObj(n).key = << o.namespace, o.name >>
    /\ keyForObj([ kind |-> "other", obj |-> NoRelease, key |-> NoKey ]).err

\* A release entering or leaving the cache comes with Add of its key, the
\* same for both; and a step that changes the dirty set, other than the
\* delayed add and Get, is an Add of a key.
NotifiedIsAdded ==
    /\ \A o \in Objs :
           ((o \in store) # (o \in store')) => q' = Add(q, MetaNamespaceKeyFunc(o))
    /\ (q'.dirty # q.dirty /\ q'.waiting = q.waiting /\ q'.processing = q.processing)
           => \E k \in Keys : q' = Add(q, k)

\* C15: change notifier.  Add, update and delete notifications of a release,
\* tombstone or not, derive the same key and the queue gets Add of that key,
\* for a deletion as for an addition; a notification without a key enqueues
\* nothing: only keys are ever in the queue.
C15_ChangeNotifier ==
    /\ []OneKeyPerObject
    /\ [][NotifiedIsAdded]_vars
    /\ [](q.dirty \subseteq Keys /\ Range(q.queue) \subseteq Keys /\ NoKey \notin Keys)

\* A deleted release whose key is pending.
C15_Witness ==
    \E o \in Objs :
        /\ o \notin store
        /\ MetaNamespaceKeyFunc(o) \in Range(q.queue)
        /\ MetaNamespaceKeyFunc(o) \in q.dirty


\* The reason each constructor is for.
ReasonOf(call) ==
    CASE call = "ConditionAvailable"   -> "Available"
      [] call = "ConditionFailure"     -> "Failure"
      [] call = "ConditionCreating"    -> "Creating"
      [] call = "ConditionUpdating"    -> "Updating"
      [] call = "ConditionRollbacking" -> "Rollbacking"

\* C16: status model mapping.  Every condition constructed has status True
\* and the reason of its constructor; Creating, Updating and Rollbacking have
\* type Progressing, Available has type Available, Failure has type Failure;
\* Failure carries the message supplied and the others an empty message; the
\* five constructors cover the five reasons.
C16_StatusModel ==
    /\ \A i \in 1..Len(conditions) :
          LET e == conditions[i]
              c == e.condition
          IN  /\ c.status = "True"
              /\ c.reason = ReasonOf(e.call)
              /\ c.reason \in {"Creating", "Updating", "Rollbacking"} => c.type = "Progressing"
              /\ c.reason = "Available" => c.type = "Available"
              /\ c.reason = "Failure" => c.type = "Failure"
              /\ c.message = IF c.reason = "Failure" THEN e.message ELSE ""
    /\ { ConditionAvailable.reason, ConditionCreating.reason, ConditionUpdating.reason,
         ConditionRollbacking.reason } \cup { ConditionFailure(m).reason : m \in Messages }
           = {"Available", "Failure", "Creating", "Updating", "Rollbacking"}

\* A condition of each of the five reasons has been constructed, the failure
\* with a message.
C16_Witness ==
    /\ { conditions[i].condition.reason : i \in 1..Len(conditions) }
           = {"Available", "Failure", "Creating", "Updating", "Rollbacking"}
    /\ \E i \in 1..Len(conditions) :
           /\ conditions[i].call = "ConditionFailure"
           /\ conditions[i].condition.message = "install failed"


\* The worker is in its loop over processNextWorkItem.
InLoop == wpc \in { "get", "split", "lookup", "inCall", "deferDone" }

\* C17: sweep per cycle.  An invocation of worker calls manager.Run() once,
\* first: none is counted before, one all through the loop however many items
\* are processed, and the call is made before any item of the invocation.
C17_SweepPerCycle ==
    /\ [](wpc = "sweep" => sweeps = 0)
    /\ [](InLoop => sweeps = 1)
    /\ [](wpc \in {"none", "idle", "exited"} => sweeps = 0)
    /\ [][sweeps' > sweeps => (wpc = "sweep" /\ wpc' = "get")]_vars
    /\ [][(InLoop /\ InLoop') => sweeps' = sweeps]_vars

\* An item of an invocation has been reconciled and processNextWorkItem
\* returns true with another key pending: the loop goes round after the one
\* sweep.
C17_Witness ==
    /\ Returning
    /\ result = "ok"
    /\ sweeps = 1
    /\ q.queue # << >>


\* C18: Get/Done pairing.  From Get to the return of processNextWorkItem the
\* key it got, and no other, is in processing; outside processNextWorkItem no
\* key is.  A key enters processing only by Get and leaves it only by the
\* Done of the return, on the decode error, lookup error, call error and
\* success paths alike.
C18_GetDonePairing ==
    /\ [](InFlight => q.processing = {key})
    /\ [](~InFlight => q.processing = {})
    /\ [][q'.processing # q.processing =>
            \/ wpc = "get" /\ wpc' = "split" /\ q'.processing = {key'}
            \/ /\ Returning
               /\ result \in {"decodeErr", "lookupErr", "actionErr", "ok"}
               /\ q' = Done(q, key)
               /\ q'.processing = {}]_vars
    /\ [][(Returning /\ wpc' # "deferDone") => q' = Done(q, key)]_vars

\* processNextWorkItem is returning after a lookup error, its key still in
\* processing until the deferred Done.
C18_Witness ==
    /\ Returning
    /\ result = "lookupErr"
    /\ q.processing = {key}
    /\ key \in ObjKeys


\* The manager's operations that are executing: the sweep, or the Trigger or
\* Delete call of the running processNextWorkItem.
Executing ==
    ( IF wpc = "sweep" THEN { "Run" } ELSE {} )
        \cup ( IF wpc = "inCall" THEN { calls[i].op : i \in 1..Len(calls) } ELSE {} )

\* C19: single worker.  Run starts one worker goroutine and no more, so at
\* most one of manager.Run, Trigger and Delete is executing: during the sweep
\* no Trigger or Delete is in flight and no key is being processed, and one
\* processNextWorkItem has one call and one key at most.
C19_SingleWorker ==
    /\ workers <= 1
    /\ wpc # "none" <=> workers = 1
    /\ Cardinality(Executing) <= 1
    /\ wpc = "sweep" => (calls = << >> /\ q.processing = {})
    /\ Len(calls) <= 1
    /\ Cardinality(q.processing) <= 1

\* The sweep of a later invocation of worker is executing, keys pending.
C19_Witness ==
    /\ workers = 1
    /\ Executing = { "Run" }
    /\ swept
    /\ q.queue # << >>


\* C20: a failed sweep is not fatal.  When manager.Run() returns, with an
\* error or without, the worker enters its loop and the queue is as it was;
\* after a failed sweep the worker is in the loop, and with a key pending it
\* goes on to take it in that same invocation.
C20_SweepFailureNotFatal ==
    /\ [][(wpc = "sweep" /\ wpc' # "sweep") => (wpc' = "get" /\ q' = q)]_vars
    /\ [](sweepErr => InLoop)
    /\ (sweepErr /\ wpc = "get" /\ q.queue # << >>) ~> (sweepErr /\ wpc = "split")

\* After a failed sweep a key has been dispatched to Trigger or Delete.
C20_Witness ==
    /\ sweepErr
    /\ wpc = "inCall"
    /\ calls # << >>

====
